---- MODULE Spec2Model ----
(***************************************************************************)
(* Incremental ingestion of the Digital-Twin knowledge base.               *)
(*                                                                         *)
(* One behaviour follows one source kind (Google Drive folder, GitHub      *)
(* repositories, synthetic JSON directory): its upstream documents, its    *)
(* ledger file (hash store) and the points it owns in the Qdrant           *)
(* collection.  The three kinds use separate ledger files and disjoint     *)
(* point ids, so they are followed one at a time.                          *)
(*                                                                         *)
(* A document's content is abstracted to [v, n]: a content variant and the *)
(* number of chunks SentenceSplitter cuts it into (n = 0: empty or         *)
(* whitespace-only text).  The fingerprint (modified time, git sha,        *)
(* sha256) identifies the content.  SentenceSplitter drops whitespace-only *)
(* chunks, so every node handed to upsert_nodes has content.               *)
(***************************************************************************)
EXTENDS Integers, Sequences, FiniteSets, TLC

MaxKeys == 2
MaxChunks == 2
MaxVariant == 1
MaxEdits == 3

Keys == 1..MaxKeys
Kinds == {"gdrive", "github", "synthetic"}
GITHUB_REPOS == <<1, 2>>

VARIABLES
    kind,           \* the source kind this behaviour follows
    upstream,       \* source key -> content of the upstream document
    disk,           \* the ledger file of this kind
    points,         \* ids of the points in the Qdrant collection
    pc,             \* position of the running pass ("idle": no pass)
    store,          \* the ledger dict of the running pass
    todo,           \* documents of the loop not yet examined
    repoq,          \* ingest_github: repositories not yet finished
    FORCE_REINDEX,
    RESUME_MODE,
    new_count, changed_count, skipped_count, error_count,
    edits,          \* upstream edits so far
    raised,         \* exceptions raised by documents of this pass
    prior,          \* points of the document in hand when it was examined
    failed,         \* keys whose last chunk/embed/upsert failed
    cleanSince,     \* last pass completed without error, upstream unchanged
    rerun           \* the running pass repeats such a pass

\* chunker.py, followed on its own
VARIABLES
    produced,       \* the nodes tag_and_chunk has returned so far
    utcnow          \* datetime.now(timezone.utc)

ingestVars == <<kind, upstream, disk, points, pc, store, todo, repoq,
                FORCE_REINDEX, RESUME_MODE,
                new_count, changed_count, skipped_count, error_count,
                edits, raised, prior, failed, cleanSince, rerun>>
chunkerVars == <<produced, utcnow>>

\* core/router.py, called by several threads of one process
VARIABLES
    _utterance_vecs,  \* the cache: utterance -> vector
    call,             \* caller -> position and locals of its detect_mode call
    embedded,         \* utterance -> embedding requests issued for it
    answer            \* what the last detect_mode call to return returned

routerVars == <<_utterance_vecs, call, embedded, answer>>

\* core/retriever.py
VARIABLES
    scored,         \* the points of the collection, each with its
                    \* similarity to the query in hand
    retrieval,      \* position and locals of the running retrieve call
    outcome         \* how the last retrieve call ended

retrieverVars == <<scored, retrieval, outcome>>

\* ingest/gdrive_reader.py
VARIABLES
    reader,         \* position and locals of the running load_data call
    loaded          \* what the last load_data call returned or raised

readerVars == <<reader, loaded>>

\* ingest/embedder.py: ensure_collection
VARIABLES
    collection,     \* the collection COLLECTION_NAME in Qdrant
    ensuring,       \* position and locals of the running ensure_collection
    ensured         \* calls of ensure_collection so far, and how the last
                    \* one ended

collectionVars == <<collection, ensuring, ensured>>

\* ingest/embedder.py: upsert_nodes
VARIABLES
    upserting,      \* position and locals of the running upsert_nodes
    stored          \* point id -> vector of the point in the collection

upsertVars == <<upserting, stored>>

\* ingest/embedder.py: _upsert_with_retry
VARIABLES
    retrying        \* the running _upsert_with_retry call: its frames, the
                    \* upserts it has attempted, its sleeps, how it ended

retryVars == <<retrying>>

vars == <<ingestVars, chunkerVars, routerVars, retrieverVars, readerVars,
          collectionVars, upsertVars, retryVars>>

\* a step of one component leaves the state of the others alone
Frame(component) ==
    /\ (component = "ingest" \/ UNCHANGED ingestVars)
    /\ (component = "chunker" \/ UNCHANGED chunkerVars)
    /\ (component = "router" \/ UNCHANGED routerVars)
    /\ (component = "retriever" \/ UNCHANGED retrieverVars)
    /\ (component = "reader" \/ UNCHANGED readerVars)
    /\ (component = "collection" \/ UNCHANGED collectionVars)
    /\ (component = "upsert" \/ UNCHANGED upsertVars)
    /\ (component = "retry" \/ UNCHANGED retryVars)

----------------------------------------------------------------------------
(* Documents and fingerprints *)

NoDoc == [v |-> 0, n |-> 0]
Contents == [v : 1..MaxVariant, n : 0..MaxChunks]
Present(k) == upstream[k] # NoDoc

\* modified time / git sha / sha256 of the content
Fingerprint(c) == <<c.v, c.n>>
NoFp == <<0, 0>>

Range(s) == {s[i] : i \in 1..Len(s)}

RECURSIVE SortedSeq(_)
SortedSeq(S) ==
    IF S = {} THEN <<>>
    ELSE LET m == CHOOSE x \in S : \A y \in S : x <= y
         IN <<m>> \o SortedSeq(S \ {m})

\* the repository a GitHub file key belongs to
RepoOf(k) == ((k - 1) % 2) + 1

\* personality_ns and content_type handed to tag_and_chunk
NsOf(k, c) ==
    IF kind = "synthetic"
    THEN (IF c.v % 2 = 1 THEN "technical" ELSE "nontechnical")
    ELSE "technical"
CtOf(k) ==
    IF kind = "github"
    THEN (IF k % 2 = 1 THEN "code" ELSE "documentation")
    ELSE "documentation"

----------------------------------------------------------------------------
(* chunker.py *)

\* sha1 of "file_id|personality_ns|content_type|i", as a UUID
ChunkId(file_id, personality_ns, content_type, i) ==
    <<file_id, personality_ns, content_type, i>>

\* node ids of the chunks of one document, [] for an empty document
tag_and_chunk(k, c, personality_ns, content_type) ==
    [i \in 1..c.n |-> ChunkId(k, personality_ns, content_type, i - 1)]

----------------------------------------------------------------------------
(* hash stores *)

NoEntry == [in |-> FALSE, fp |-> NoFp, ids |-> <<>>]
EmptyStore == [k \in Keys |-> NoEntry]

NoFile == [state |-> "missing", data |-> EmptyStore]

\* result of loading: ok = FALSE when json.loads raises
load_hash_store(d) ==
    IF d.state = "missing" THEN [ok |-> TRUE, store |-> EmptyStore]
    ELSE IF d.state = "corrupt" THEN [ok |-> FALSE, store |-> EmptyStore]
    ELSE [ok |-> TRUE, store |-> d.data]

load_gdrive_hash_store(d) ==
    IF d.state = "missing" THEN [ok |-> TRUE, store |-> EmptyStore]
    ELSE IF d.state = "corrupt" THEN [ok |-> FALSE, store |-> EmptyStore]
    ELSE [ok |-> TRUE, store |-> d.data]

load_synthetic_store(d) ==
    IF d.state = "missing" THEN [ok |-> TRUE, store |-> EmptyStore]
    ELSE IF d.state = "corrupt" THEN [ok |-> TRUE, store |-> EmptyStore]
    ELSE [ok |-> TRUE, store |-> d.data]

save_hash_store(s) == [state |-> "ok", data |-> s]

save_gdrive_hash_store(s) == [state |-> "ok", data |-> s]

save_synthetic_store(s) == [state |-> "ok", data |-> s]

is_changed(s, file_key, current_sha) ==
    IF ~s[file_key].in THEN TRUE ELSE s[file_key].fp # current_sha

is_gdrive_changed(s, file_id, modified_time) ==
    IF ~s[file_id].in THEN TRUE ELSE s[file_id].fp # modified_time

is_synthetic_changed(s, file_name, current_sha) ==
    IF ~s[file_name].in THEN TRUE ELSE s[file_name].fp # current_sha

record_file(s, file_key, fp, point_ids) ==
    [s EXCEPT ![file_key] = [in |-> TRUE, fp |-> fp, ids |-> point_ids]]

\* the dict is replaced by one that holds the new entry only
record_alone(s, file_id, modified_time, point_ids) ==
    [EmptyStore EXCEPT ![file_id] =
                  [in |-> TRUE, fp |-> modified_time, ids |-> point_ids]]

record_gdrive_file(s, file_id, modified_time, point_ids) ==
    [s EXCEPT ![file_id] =
                  [in |-> TRUE, fp |-> modified_time, ids |-> point_ids]]

record_synthetic_file(s, file_name, content_sha, point_ids) ==
    [s EXCEPT ![file_name] =
                  [in |-> TRUE, fp |-> content_sha, ids |-> point_ids]]

get_old_point_ids(s, file_key) ==
    IF ~s[file_key].in THEN <<>> ELSE s[file_key].ids

get_old_gdrive_point_ids(s, file_id) ==
    IF ~s[file_id].in THEN <<>> ELSE s[file_id].ids

----------------------------------------------------------------------------
(* embedder.py *)

\* err: client.retrieve raised, which the function swallows
verify_points_exist(pts, point_ids, err) ==
    IF point_ids = <<>> THEN TRUE
    ELSE IF err THEN FALSE
    ELSE Range(point_ids) \subseteq pts

\* a delete that is acknowledged and removes nothing
delete_nothing(pts, point_ids) == pts

delete_points_by_ids(pts, point_ids) == pts \ Range(point_ids)

upsert_nodes(pts, nodes) == pts \cup Range(nodes)

PointsOfKey(k) == {p \in points : p[1] = k}

----------------------------------------------------------------------------
(* Initial state and environment *)

\* no ingestion pass has run and none is running
IngestRest ==
    /\ kind = "gdrive"
    /\ upstream = [k \in Keys |-> NoDoc]
    /\ disk = NoFile
    /\ points = {}
    /\ pc = "idle"
    /\ store = EmptyStore
    /\ todo = <<>>
    /\ repoq = <<>>
    /\ FORCE_REINDEX = FALSE
    /\ RESUME_MODE = FALSE
    /\ new_count = 0
    /\ changed_count = 0
    /\ skipped_count = 0
    /\ error_count = 0
    /\ edits = 0
    /\ raised = 0
    /\ prior = {}
    /\ failed = {}
    /\ cleanSince = FALSE
    /\ rerun = FALSE

\* tag_and_chunk has not been called
ChunkerRest ==
    /\ produced = {}
    /\ utcnow = 0

MaxCallers == 2

Callers == 1..MaxCallers

\* no detect_mode call is running
IdleCall ==
    [pc |-> "idle", j |-> 0, ns_vecs |-> <<>>, warm |-> FALSE,
     requests |-> 0]

NoAnswer == [mode |-> "none"]

\* the module has just been imported (router.py line 89)
RouterRest ==
    /\ _utterance_vecs = <<>>
    /\ call = [t \in Callers |-> IdleCall]
    /\ embedded = <<>>
    /\ answer = NoAnswer

\* no retrieve call is running
NoRetrieval ==
    [pc |-> "idle", namespace |-> "", content_types |-> <<>>,
     to_query |-> <<>>, all_chunks |-> <<>>, searched |-> <<>>]

NoOutcome == [kind |-> "none"]

\* retrieve has not been called
RetrieverRest ==
    /\ scored = {}
    /\ retrieval = NoRetrieval
    /\ outcome = NoOutcome

\* no load_data call is running
NoLoad ==
    [pc |-> "idle", attempt |-> 0, calls |-> 0, waits |-> <<>>,
     responses |-> <<>>]

NotLoaded == [kind |-> "none"]

\* load_data has not been called
ReaderRest ==
    /\ reader = NoLoad
    /\ loaded = NotLoaded

\* Qdrant has no collection of that name
NoCollection ==
    [exists |-> FALSE, created |-> 0, indexes |-> {}, size |-> 0]

NotEnsuring == [pc |-> "idle", before |-> NoCollection]

\* a Qdrant instance that has not been used
CollectionRest ==
    /\ collection = NoCollection
    /\ ensuring = NotEnsuring
    /\ ensured = [calls |-> 0, last |-> "none"]

MaxNodes == 4

NodeIds == 1..MaxNodes

NoVector == [of |-> "none"]

\* no upsert_nodes call is running
NotUpserting ==
    [pc |-> "idle", nodes |-> <<>>, valid_nodes |-> <<>>, texts |-> <<>>,
     start |-> 0, all_vectors |-> <<>>, requests |-> <<>>,
     responses |-> <<>>]

\* upsert_nodes has not been called, the collection has no point
UpsertRest ==
    /\ upserting = NotUpserting
    /\ stored = [id \in NodeIds |-> NoVector]

\* no _upsert_with_retry call is running
NotRetrying ==
    [pc |-> "idle", retries |-> 0, frames |-> 0, attempts |-> 0,
     sleeps |-> <<>>, error |-> "none"]

\* _upsert_with_retry has not been called
RetryRest == retrying = NotRetrying

\* the components other than the one followed are not used
Rest(component) ==
    /\ (component = "ingest" \/ IngestRest)
    /\ (component = "chunker" \/ ChunkerRest)
    /\ (component = "router" \/ RouterRest)
    /\ (component = "retriever" \/ RetrieverRest)
    /\ (component = "reader" \/ ReaderRest)
    /\ (component = "collection" \/ CollectionRest)
    /\ (component = "upsert" \/ UpsertRest)
    /\ (component = "retry" \/ RetryRest)

Init ==
    /\ Rest("ingest")
    /\ kind \in Kinds
    /\ upstream = [k \in Keys |-> NoDoc]
    /\ disk = NoFile
    /\ points = {}
    /\ pc = "idle"
    /\ store = EmptyStore
    /\ todo = <<>>
    /\ repoq = <<>>
    /\ FORCE_REINDEX = FALSE
    /\ RESUME_MODE = FALSE
    /\ new_count = 0
    /\ changed_count = 0
    /\ skipped_count = 0
    /\ error_count = 0
    /\ edits = 0
    /\ raised = 0
    /\ prior = {}
    /\ failed = {}
    /\ cleanSince = FALSE
    /\ rerun = FALSE

counters == <<new_count, changed_count, skipped_count, error_count>>
flags == <<FORCE_REINDEX, RESUME_MODE>>

\* the upstream document of key k is edited, created or removed
Edit(k, c) ==
    /\ pc = "idle"
    /\ edits < MaxEdits
    /\ c # upstream[k]
    /\ upstream' = [upstream EXCEPT ![k] = c]
    /\ edits' = edits + 1
    /\ failed' = failed \ {k}
    /\ cleanSince' = FALSE
    /\ Frame("ingest")
    /\ UNCHANGED <<kind, disk, points, pc, store, todo, repoq, flags,
                   counters, raised, prior, rerun>>

\* the ledger file is damaged (truncated write, disk fault)
CorruptLedger ==
    /\ pc = "idle"
    /\ disk.state = "ok"
    /\ disk' = [state |-> "corrupt", data |-> EmptyStore]
    /\ cleanSince' = FALSE
    /\ Frame("ingest")
    /\ UNCHANGED <<kind, upstream, points, pc, store, todo, repoq, flags,
                   counters, edits, raised, prior, failed, rerun>>

\* the locals and module constants of a pass are gone with its process
ProcessGone ==
    /\ pc' = "idle"
    /\ store' = EmptyStore
    /\ todo' = <<>>
    /\ repoq' = <<>>
    /\ FORCE_REINDEX' = FALSE
    /\ RESUME_MODE' = FALSE
    /\ new_count' = 0
    /\ changed_count' = 0
    /\ skipped_count' = 0
    /\ error_count' = 0
    /\ raised' = 0
    /\ prior' = {}
    /\ rerun' = FALSE

\* the process is killed in the middle of a pass
Crash ==
    /\ pc \in {"fetch", "examine", "ingest"}
    /\ ProcessGone
    /\ cleanSince' = FALSE
    /\ Frame("ingest")
    /\ UNCHANGED <<kind, upstream, disk, points, edits, failed>>

\* lines 259-269: client.close() and the process ends
Exit ==
    /\ pc \in {"done", "aborted", "load_error"}
    /\ ProcessGone
    /\ Frame("ingest")
    /\ UNCHANGED <<kind, upstream, disk, points, edits, failed, cleanSince>>

\* the pass starts: module constants are read from the environment
BeginPass(force, resume, s, docs) ==
    /\ FORCE_REINDEX' = force
    /\ RESUME_MODE' = resume
    /\ store' = s
    /\ todo' = docs
    /\ rerun' = cleanSince
    /\ Frame("ingest")
    /\ UNCHANGED <<kind, upstream, disk, points, counters, edits, raised,
                   prior, failed, cleanSince>>

\* json.loads raises on the ledger file: the pass ends before its loop
LoadError(force, resume) ==
    /\ FORCE_REINDEX' = force
    /\ RESUME_MODE' = resume
    /\ pc' = "load_error"
    /\ cleanSince' = FALSE
    /\ Frame("ingest")
    /\ UNCHANGED <<kind, upstream, disk, points, store, todo, repoq,
                   counters, edits, raised, prior, failed, rerun>>

\* an exception leaves the function: nothing is saved
Abort ==
    /\ pc' = "aborted"
    /\ raised' = raised + 1
    /\ cleanSince' = FALSE
    /\ UNCHANGED <<store, todo, repoq, prior, rerun>>

\* the function returns after its summary line
Finish ==
    /\ pc' = "done"
    /\ cleanSince' = (raised = 0)
    /\ UNCHANGED <<store, todo, repoq, prior, rerun>>

\* the loop moves to the next document
NextDoc ==
    /\ todo' = Tail(todo)
    /\ pc' = "examine"
    /\ prior' = {}

----------------------------------------------------------------------------
(* main_ingest.py: ingest_folder *)

\* reader.load_data: the documents of the folder
FolderDocs == SortedSeq({k \in Keys : Present(k)})

ingest_folder_start(force, resume) ==
    /\ kind = "gdrive"
    /\ pc = "idle"
    /\ LET l == load_gdrive_hash_store(disk) IN
         IF l.ok
         THEN /\ BeginPass(force, resume, l.store, FolderDocs)
              /\ pc' = "examine"
              /\ repoq' = <<>>
         ELSE LoadError(force, resume)

\* lines 63-77: the RESUME_MODE check ends the iteration
ResumeSkips(k, err) ==
    /\ RESUME_MODE
    /\ store[k].in
    /\ get_old_gdrive_point_ids(store, k) # <<>>
    /\ verify_points_exist(points, get_old_gdrive_point_ids(store, k), err)

\* line 80
FolderChanged(k) ==
    FORCE_REINDEX \/ is_gdrive_changed(store, k, Fingerprint(upstream[k]))

ingest_folder_skip(err) ==
    /\ kind = "gdrive"
    /\ pc = "examine"
    /\ todo # <<>>
    /\ LET k == Head(todo) IN
         /\ ResumeSkips(k, err) \/ ~FolderChanged(k)
         /\ skipped_count' = skipped_count + 1
         /\ NextDoc
    /\ Frame("ingest")
    /\ UNCHANGED <<kind, upstream, disk, points, store, repoq, flags,
                   new_count, changed_count, error_count, edits, raised,
                   failed, cleanSince, rerun>>

\* lines 85-91: stale points deleted, the document counted
ingest_folder_process(err) ==
    /\ kind = "gdrive"
    /\ pc = "examine"
    /\ todo # <<>>
    /\ LET k == Head(todo)
           old_ids == get_old_gdrive_point_ids(store, k) IN
         /\ ~ResumeSkips(k, err)
         /\ FolderChanged(k)
         /\ prior' = PointsOfKey(k)
         /\ points' = delete_points_by_ids(points, old_ids)
         /\ IF old_ids # <<>>
            THEN changed_count' = changed_count + 1 /\ new_count' = new_count
            ELSE new_count' = new_count + 1 /\ changed_count' = changed_count
    /\ pc' = "ingest"
    /\ Frame("ingest")
    /\ UNCHANGED <<kind, upstream, disk, store, todo, repoq, flags,
                   skipped_count, error_count, edits, raised, failed,
                   cleanSince, rerun>>

\* line 88: client.delete raises
ingest_folder_delete_fails(err) ==
    /\ kind = "gdrive"
    /\ pc = "examine"
    /\ todo # <<>>
    /\ LET k == Head(todo) IN
         /\ ~ResumeSkips(k, err)
         /\ FolderChanged(k)
         /\ get_old_gdrive_point_ids(store, k) # <<>>
    /\ Abort
    /\ Frame("ingest")
    /\ UNCHANGED <<kind, upstream, disk, points, flags, counters, edits,
                   failed>>

\* lines 93-97
ingest_folder_ingest ==
    /\ kind = "gdrive"
    /\ pc = "ingest"
    /\ LET k == Head(todo)
           nodes == tag_and_chunk(k, upstream[k], NsOf(k, upstream[k]),
                                  CtOf(k)) IN
         /\ points' = upsert_nodes(points, nodes)
         /\ store' = record_gdrive_file(store, k, Fingerprint(upstream[k]), nodes)
         /\ failed' = failed \ {k}
    /\ NextDoc
    /\ Frame("ingest")
    /\ UNCHANGED <<kind, upstream, disk, repoq, flags, counters, edits,
                   raised, cleanSince, rerun>>

\* lines 93-94: chunking, embedding or client.upsert raises; the points in
\* written had reached the collection by then (none when the embedding
\* call fails, all of them when only the response is lost)
ingest_folder_ingest_fails ==
    /\ kind = "gdrive"
    /\ pc = "ingest"
    /\ LET k == Head(todo)
           nodes == tag_and_chunk(k, upstream[k], NsOf(k, upstream[k]),
                                  CtOf(k)) IN
         /\ nodes # <<>>
         /\ \E written \in SUBSET Range(nodes) :
                points' = points \cup written
         /\ failed' = failed \cup {k}
    /\ Abort
    /\ Frame("ingest")
    /\ UNCHANGED <<kind, upstream, disk, flags, counters, edits>>

\* line 99
ingest_folder_save ==
    /\ kind = "gdrive"
    /\ pc = "examine"
    /\ todo = <<>>
    /\ disk' = save_gdrive_hash_store(store)
    /\ Finish
    /\ Frame("ingest")
    /\ UNCHANGED <<kind, upstream, points, flags, counters, edits, raised,
                   failed>>

----------------------------------------------------------------------------
(* main_ingest.py: ingest_github *)

\* fetch_repo_files: the eligible files of one repository
RepoFiles(r) == SortedSeq({k \in Keys : Present(k) /\ RepoOf(k) = r})

ingest_github_start(force, resume) ==
    /\ kind = "github"
    /\ pc = "idle"
    /\ LET l == load_hash_store(disk) IN
         IF l.ok
         THEN /\ BeginPass(force, resume, l.store, <<>>)
              /\ pc' = "fetch"
              /\ repoq' = GITHUB_REPOS
         ELSE LoadError(force, resume)

\* lines 116-122: next repository, counters start again
ingest_github_fetch ==
    /\ kind = "github"
    /\ pc = "fetch"
    /\ todo' = RepoFiles(Head(repoq))
    /\ new_count' = 0
    /\ changed_count' = 0
    /\ skipped_count' = 0
    /\ pc' = "examine"
    /\ Frame("ingest")
    /\ UNCHANGED <<kind, upstream, disk, points, store, repoq, flags,
                   error_count, edits, raised, prior, failed, cleanSince,
                   rerun>>

\* lines 127-129
ingest_github_skip ==
    /\ kind = "github"
    /\ pc = "examine"
    /\ todo # <<>>
    /\ ~is_changed(store, Head(todo), Fingerprint(upstream[Head(todo)]))
    /\ skipped_count' = skipped_count + 1
    /\ NextDoc
    /\ Frame("ingest")
    /\ UNCHANGED <<kind, upstream, disk, points, store, repoq, flags,
                   new_count, changed_count, error_count, edits, raised,
                   failed, cleanSince, rerun>>

\* lines 131-137
ingest_github_process ==
    /\ kind = "github"
    /\ pc = "examine"
    /\ todo # <<>>
    /\ LET k == Head(todo)
           old_ids == get_old_point_ids(store, k) IN
         /\ is_changed(store, k, Fingerprint(upstream[k]))
         /\ prior' = PointsOfKey(k)
         /\ points' = delete_points_by_ids(points, old_ids)
         /\ IF old_ids # <<>>
            THEN changed_count' = changed_count + 1 /\ new_count' = new_count
            ELSE new_count' = new_count + 1 /\ changed_count' = changed_count
    /\ pc' = "ingest"
    /\ Frame("ingest")
    /\ UNCHANGED <<kind, upstream, disk, store, todo, repoq, flags,
                   skipped_count, error_count, edits, raised, failed,
                   cleanSince, rerun>>

\* line 134: client.delete raises
ingest_github_delete_fails ==
    /\ kind = "github"
    /\ pc = "examine"
    /\ todo # <<>>
    /\ is_changed(store, Head(todo), Fingerprint(upstream[Head(todo)]))
    /\ get_old_point_ids(store, Head(todo)) # <<>>
    /\ Abort
    /\ Frame("ingest")
    /\ UNCHANGED <<kind, upstream, disk, points, flags, counters, edits,
                   failed>>

\* lines 139-150
ingest_github_ingest ==
    /\ kind = "github"
    /\ pc = "ingest"
    /\ LET k == Head(todo)
           nodes == tag_and_chunk(k, upstream[k], "technical", CtOf(k)) IN
         /\ points' = upsert_nodes(points, nodes)
         /\ store' = record_file(store, k, Fingerprint(upstream[k]), nodes)
         /\ failed' = failed \ {k}
    /\ NextDoc
    /\ Frame("ingest")
    /\ UNCHANGED <<kind, upstream, disk, repoq, flags, counters, edits,
                   raised, cleanSince, rerun>>

\* lines 144-146: chunking, embedding or client.upsert raises
ingest_github_ingest_fails ==
    /\ kind = "github"
    /\ pc = "ingest"
    /\ LET k == Head(todo)
           nodes == tag_and_chunk(k, upstream[k], "technical", CtOf(k)) IN
         /\ nodes # <<>>
         /\ \E written \in SUBSET Range(nodes) :
                points' = points \cup written
         /\ failed' = failed \cup {k}
    /\ Abort
    /\ Frame("ingest")
    /\ UNCHANGED <<kind, upstream, disk, flags, counters, edits>>

\* line 152: the ledger is saved after every repository
ingest_github_save ==
    /\ kind = "github"
    /\ pc = "examine"
    /\ todo = <<>>
    /\ disk' = save_hash_store(store)
    /\ IF Tail(repoq) = <<>>
       THEN Finish
       ELSE /\ repoq' = Tail(repoq)
            /\ pc' = "fetch"
            /\ UNCHANGED <<store, todo, prior, rerun, cleanSince>>
    /\ Frame("ingest")
    /\ UNCHANGED <<kind, upstream, points, flags, counters, edits, raised,
                   failed>>

----------------------------------------------------------------------------
(* main_ingest.py: ingest_synthetic *)

\* sorted(sources_path.glob("*.json"))
JsonFiles == SortedSeq({k \in Keys : Present(k)})

\* lines 182-191: no directory or no file, the function returns
ingest_synthetic_nothing(force, resume) ==
    /\ kind = "synthetic"
    /\ pc = "idle"
    /\ JsonFiles = <<>>
    /\ BeginPass(force, resume, EmptyStore, <<>>)
    /\ pc' = "done"
    /\ repoq' = <<>>

ingest_synthetic_start(force, resume) ==
    /\ kind = "synthetic"
    /\ pc = "idle"
    /\ JsonFiles # <<>>
    /\ BeginPass(force, resume, load_synthetic_store(disk).store, JsonFiles)
    /\ pc' = "examine"
    /\ repoq' = <<>>

\* line 211
SyntheticChanged(k) ==
    FORCE_REINDEX
        \/ is_synthetic_changed(store, k, Fingerprint(upstream[k]))

ingest_synthetic_skip ==
    /\ kind = "synthetic"
    /\ pc = "examine"
    /\ todo # <<>>
    /\ ~SyntheticChanged(Head(todo))
    /\ skipped_count' = skipped_count + 1
    /\ NextDoc
    /\ Frame("ingest")
    /\ UNCHANGED <<kind, upstream, disk, points, store, repoq, flags,
                   new_count, changed_count, error_count, edits, raised,
                   failed, cleanSince, rerun>>

\* lines 216-222: the delete of the old chunks is commented out
ingest_synthetic_process ==
    /\ kind = "synthetic"
    /\ pc = "examine"
    /\ todo # <<>>
    /\ SyntheticChanged(Head(todo))
    /\ prior' = PointsOfKey(Head(todo))
    /\ new_count' = new_count + 1
    /\ pc' = "ingest"
    /\ Frame("ingest")
    /\ UNCHANGED <<kind, upstream, disk, points, store, todo, repoq, flags,
                   changed_count, skipped_count, error_count, edits,
                   raised, failed, cleanSince, rerun>>

\* line 225: load_synthetic_document raises ValueError on an empty body
ingest_synthetic_load_fails ==
    /\ kind = "synthetic"
    /\ pc = "ingest"
    /\ upstream[Head(todo)].n = 0
    /\ error_count' = error_count + 1
    /\ raised' = raised + 1
    /\ NextDoc
    /\ Frame("ingest")
    /\ UNCHANGED <<kind, upstream, disk, points, store, repoq, flags,
                   new_count, changed_count, skipped_count, edits, failed,
                   cleanSince, rerun>>

\* lines 225-239
ingest_synthetic_ingest ==
    /\ kind = "synthetic"
    /\ pc = "ingest"
    /\ upstream[Head(todo)].n > 0
    /\ LET k == Head(todo)
           nodes == tag_and_chunk(k, upstream[k], NsOf(k, upstream[k]),
                                  "documentation") IN
         /\ points' = upsert_nodes(points, nodes)
         /\ store' = record_synthetic_file(store, k, Fingerprint(upstream[k]), nodes)
         /\ failed' = failed \ {k}
    /\ NextDoc
    /\ Frame("ingest")
    /\ UNCHANGED <<kind, upstream, disk, repoq, flags, counters, edits,
                   raised, cleanSince, rerun>>

\* lines 232-248: chunking, embedding or client.upsert raises; caught
ingest_synthetic_ingest_fails ==
    /\ kind = "synthetic"
    /\ pc = "ingest"
    /\ upstream[Head(todo)].n > 0
    /\ LET k == Head(todo)
           nodes == tag_and_chunk(k, upstream[k], NsOf(k, upstream[k]),
                                  "documentation") IN
         /\ \E written \in SUBSET Range(nodes) :
                points' = points \cup written
         /\ failed' = failed \cup {k}
    /\ error_count' = error_count + 1
    /\ raised' = raised + 1
    /\ NextDoc
    /\ Frame("ingest")
    /\ UNCHANGED <<kind, upstream, disk, store, repoq, flags, new_count,
                   changed_count, skipped_count, edits, cleanSince, rerun>>

\* line 251
ingest_synthetic_save ==
    /\ kind = "synthetic"
    /\ pc = "examine"
    /\ todo = <<>>
    /\ disk' = save_synthetic_store(store)
    /\ Finish
    /\ Frame("ingest")
    /\ UNCHANGED <<kind, upstream, points, flags, counters, edits, raised,
                   failed>>

----------------------------------------------------------------------------

Next ==
    \/ \E k \in Keys, c \in Contents \cup {NoDoc} : Edit(k, c)
    \/ CorruptLedger
    \/ Crash
    \/ Exit
    \/ \E force \in BOOLEAN, resume \in BOOLEAN :
           ingest_folder_start(force, resume)
    \/ \E err \in BOOLEAN : ingest_folder_skip(err)
    \/ \E err \in BOOLEAN : ingest_folder_process(err)
    \/ \E err \in BOOLEAN : ingest_folder_delete_fails(err)
    \/ ingest_folder_ingest
    \/ ingest_folder_ingest_fails
    \/ ingest_folder_save
    \/ \E force \in BOOLEAN, resume \in BOOLEAN :
           ingest_github_start(force, resume)
    \/ ingest_github_fetch
    \/ ingest_github_skip
    \/ ingest_github_process
    \/ ingest_github_delete_fails
    \/ ingest_github_ingest
    \/ ingest_github_ingest_fails
    \/ ingest_github_save
    \/ \E force \in BOOLEAN, resume \in BOOLEAN :
           ingest_synthetic_nothing(force, resume)
    \/ \E force \in BOOLEAN, resume \in BOOLEAN :
           ingest_synthetic_start(force, resume)
    \/ ingest_synthetic_skip
    \/ ingest_synthetic_process
    \/ ingest_synthetic_load_fails
    \/ ingest_synthetic_ingest
    \/ ingest_synthetic_ingest_fails
    \/ ingest_synthetic_save

Spec == Init /\ [][Next]_vars

----------------------------------------------------------------------------
(* chunker.py: the id of a chunk *)
(* A string is a sequence of tokens: a letter, the separator "|", or a     *)
(* word that matters as a substring.  "" and a missing key are both <<>>,  *)
(* as both are falsy in the chain of "or".                                 *)

MaxCalls == 2

MetadataKeys == {"file id", "doc_id", "file_name"}

\* GoogleDriveReader: "file id", and the name under "file name"
DriveMetadata(id) ==
    [key \in MetadataKeys |-> IF key = "file id" THEN id ELSE <<>>]

\* files_to_documents: "doc_id" is the file key
GithubMetadata(file_key) ==
    [key \in MetadataKeys |-> IF key = "doc_id" THEN file_key ELSE <<>>]

\* load_synthetic_document: "doc_id" and "file_name" are the file name
SyntheticMetadata(name) ==
    [key \in MetadataKeys |-> IF key = "file id" THEN <<>> ELSE name]

\* a document built elsewhere, with none of the three keys
BareMetadata == [key \in MetadataKeys |-> <<>>]

Metadatas ==
    {DriveMetadata(<<"a">>), GithubMetadata(<<"a">>),
     SyntheticMetadata(<<"a", "|", "technical">>), BareMetadata}

namespaces == <<"technical", "nontechnical">>
ContentTypes == {"code", "documentation"}
Bodies == {"x", "y"}

\* the metadata is not looked at
unknown_file_id(metadata) == <<"unknown">>

\* lines 63-68
file_id(metadata) ==
    IF metadata["file id"] # <<>> THEN metadata["file id"]
    ELSE IF metadata["doc_id"] # <<>> THEN metadata["doc_id"]
    ELSE IF metadata["file_name"] # <<>> THEN metadata["file_name"]
    ELSE <<"unknown">>

\* the id string also carries the ingestion time of the node
raw_stamped(node, id, personality_ns, content_type, i) ==
    id \o <<"|", personality_ns, "|", content_type, "|", i, "|",
            node.ingested_at>>

\* line 70, read with the node in hand
raw(node, id, personality_ns, content_type, i) ==
    id \o <<"|", personality_ns, "|", content_type, "|", i>>

\* lines 73-74: the first 16 bytes of the SHA-1 digest as a UUID; distinct
\* strings have distinct digests
sha1_uuid(s) == [uuid |-> s]

\* lines 36-77: the nodes of one document whose text SentenceSplitter cuts
\* into n chunks (none for an empty document, lines 25-35)
nodes_of(metadata, body, n, personality_ns, content_type, ingested_at) ==
    { LET node == [metadata |-> metadata,
                   text |-> <<body, i>>,
                   personality_ns |-> personality_ns,
                   content_type |-> content_type,
                   chunk_index |-> i,
                   chunk_total |-> n,
                   ingested_at |-> ingested_at]
      IN [node |-> node,
          file_id |-> file_id(metadata),
          node_id |-> sha1_uuid(raw(node, file_id(metadata), personality_ns,
                                    content_type, i))]
      : i \in 0..(n - 1) }

\* one call of tag_and_chunk on one document
tag_and_chunk_call(metadata, body, n, personality_ns, content_type) ==
    /\ utcnow < MaxCalls
    /\ utcnow' = utcnow + 1
    /\ produced' = produced \cup nodes_of(metadata, body, n, personality_ns,
                                          content_type, utcnow')
    /\ Frame("chunker")

InitChunker ==
    /\ Rest("chunker")
    /\ produced = {}
    /\ utcnow = 0

NextChunker ==
    \E metadata \in Metadatas, body \in Bodies, n \in 0..MaxChunks,
       personality_ns \in Range(namespaces),
       content_type \in ContentTypes :
        tag_and_chunk_call(metadata, body, n, personality_ns, content_type)

SpecChunker == InitChunker /\ [][NextChunker]_vars

----------------------------------------------------------------------------
(* core/router.py *)
(* A similarity is kept in hundredths.  A vector is known by the text it   *)
(* embeds; a query vector is known by its cosine similarity to each        *)
(* utterance vector.                                                       *)

CONFIDENCE_THRESHOLD == 8

\* lines 13-58: "technical" is a tuple of questions; "nontechnical" is one
\* string (adjacent literals, no comma), which the loop of line 100 walks
\* character by character
_ANCHORS ==
    [technical |-> <<"quantization", "pruning">>,
     nontechnical |-> <<"e", "e">>]

\* _ANCHORS.items(), in insertion order
AnchorKeys == <<"technical", "nontechnical">>

\* the pairs the two loops of lines 98-100 go through, in order
ExemplarsOf(ns) ==
    [i \in 1..Len(_ANCHORS[ns]) |-> [ns |-> ns, utt |-> _ANCHORS[ns][i]]]
Exemplars == ExemplarsOf(AnchorKeys[1]) \o ExemplarsOf(AnchorKeys[2])

Utterances == {Exemplars[i].utt : i \in 1..Len(Exemplars)}

Similarities == {80, 82, 83, 90}

\* _embed_model.get_text_embedding on an utterance
get_text_embedding(text) == [of |-> text]

\* what _embed_model.get_text_embedding can return for a query
QueryVecs == [Utterances -> Similarities]

\* lines 108-109
_cosine(a, b) == a[b.of]

Max(S) == CHOOSE x \in S : \A y \in S : y <= x

\* d[key] = value
SetItem(d, key, value) ==
    [x \in DOMAIN d \cup {key} |-> IF x = key THEN value ELSE d[x]]

\* sorted(values, reverse=True) of a list of numbers
Insert(s, x) ==
    LET k == Cardinality({i \in 1..Len(s) : s[i] >= x})
    IN SubSeq(s, 1, k) \o <<x>> \o SubSeq(s, k + 1, Len(s))

RECURSIVE sorted_reverse(_)
sorted_reverse(values) ==
    IF values = <<>> THEN <<>>
    ELSE Insert(sorted_reverse(SubSeq(values, 1, Len(values) - 1)),
                values[Len(values)])

\* line 137 with "<=" for "<"
margin_at_most(margin) == margin <= CONFIDENCE_THRESHOLD

\* line 137
margin_below(margin) == margin < CONFIDENCE_THRESHOLD

\* lines 128-141
detect_mode(ns_vecs, qvec) ==
    LET scores == [ns \in DOMAIN ns_vecs |->
                      Max({_cosine(qvec, ns_vecs[ns][i]) :
                              i \in 1..Len(ns_vecs[ns])})]
        sorted_scores ==
            sorted_reverse([i \in 1..Len(AnchorKeys) |-> scores[AnchorKeys[i]]])
        best == sorted_scores[1]
        second == sorted_scores[2]
        margin == best - second
        first == CHOOSE i \in 1..Len(AnchorKeys) :
                     /\ scores[AnchorKeys[i]] = Max(Range(sorted_scores))
                     /\ \A h \in 1..(i - 1) :
                            scores[AnchorKeys[h]] # scores[AnchorKeys[i]]
    IN IF margin_below(margin)
       THEN [mode |-> "ambiguous", scores |-> scores]
       ELSE [mode |-> AnchorKeys[first], scores |-> scores]

\* line 122: detect_mode is entered
detect_mode_call(t) ==
    /\ call[t].pc = "idle"
    /\ call' = [call EXCEPT ![t] =
                   [pc |-> "loop", j |-> 1,
                    ns_vecs |-> [ns \in Range(AnchorKeys) |-> <<>>],
                    warm |-> Utterances \subseteq DOMAIN _utterance_vecs,
                    requests |-> 0]]
    /\ UNCHANGED <<_utterance_vecs, embedded, answer>>
    /\ Frame("router")

\* vecs.append(_utterance_vecs[utt]) and the next utterance
Append_vec(c) ==
    [c EXCEPT !.pc = "loop",
              !.j = c.j + 1,
              !.ns_vecs[Exemplars[c.j].ns] =
                  Append(@, get_text_embedding(Exemplars[c.j].utt))]

\* lines 101, 103: the utterance is in the cache
_get_utterance_vecs_hit(t) ==
    /\ call[t].pc = "loop"
    /\ call[t].j <= Len(Exemplars)
    /\ Exemplars[call[t].j].utt \in DOMAIN _utterance_vecs
    /\ call' = [call EXCEPT ![t] = Append_vec(call[t])]
    /\ UNCHANGED <<_utterance_vecs, embedded, answer>>
    /\ Frame("router")

\* lines 101-102: the utterance is not in the cache, the request is sent
_get_utterance_vecs_miss(t) ==
    /\ call[t].pc = "loop"
    /\ call[t].j <= Len(Exemplars)
    /\ LET utt == Exemplars[call[t].j].utt IN
         /\ utt \notin DOMAIN _utterance_vecs
         /\ embedded' = SetItem(embedded, utt,
                 IF utt \in DOMAIN embedded THEN embedded[utt] + 1 ELSE 1)
    /\ call' = [call EXCEPT ![t].pc = "embedding",
                            ![t].requests = @ + 1]
    /\ UNCHANGED <<_utterance_vecs, answer>>
    /\ Frame("router")

\* lines 102-103: the vector arrives and is stored
_get_utterance_vecs_store(t) ==
    /\ call[t].pc = "embedding"
    /\ LET utt == Exemplars[call[t].j].utt IN
         _utterance_vecs' =
             SetItem(_utterance_vecs, utt, get_text_embedding(utt))
    /\ call' = [call EXCEPT ![t] = Append_vec(call[t])]
    /\ UNCHANGED <<embedded, answer>>
    /\ Frame("router")

\* line 123: the request for the query vector is sent
detect_mode_embed_query(t) ==
    /\ call[t].pc = "loop"
    /\ call[t].j > Len(Exemplars)
    /\ call' = [call EXCEPT ![t].pc = "query", ![t].requests = @ + 1]
    /\ UNCHANGED <<_utterance_vecs, embedded, answer>>
    /\ Frame("router")

\* lines 123-141: the query vector arrives, the call returns
detect_mode_return(t, qvec) ==
    /\ call[t].pc = "query"
    /\ LET r == detect_mode(call[t].ns_vecs, qvec) IN
         answer' = [mode |-> r.mode, scores |-> r.scores, qvec |-> qvec]
    /\ call' = [call EXCEPT ![t] = IdleCall]
    /\ UNCHANGED <<_utterance_vecs, embedded>>
    /\ Frame("router")

InitRouter ==
    /\ Rest("router")
    /\ RouterRest

\* query_cli.py: one caller, one query after the other
MainThread == 1

NextRouter ==
    \/ detect_mode_call(MainThread)
    \/ _get_utterance_vecs_hit(MainThread)
    \/ _get_utterance_vecs_miss(MainThread)
    \/ _get_utterance_vecs_store(MainThread)
    \/ detect_mode_embed_query(MainThread)
    \/ \E qvec \in QueryVecs : detect_mode_return(MainThread, qvec)

SpecRouter == InitRouter /\ [][NextRouter]_vars

\* the query vectors of the concurrent callers: one decided, one ambiguous
ThreadQueryVecs ==
    {[utt \in Utterances |-> IF utt = "e" THEN 80 ELSE 90],
     [utt \in Utterances |-> IF utt = "e" THEN 83 ELSE 90]}

\* detect_mode called from several threads of the process
NextRouterThreads ==
    \/ \E t \in Callers : detect_mode_call(t)
    \/ \E t \in Callers : _get_utterance_vecs_hit(t)
    \/ \E t \in Callers : _get_utterance_vecs_miss(t)
    \/ \E t \in Callers : _get_utterance_vecs_store(t)
    \/ \E t \in Callers : detect_mode_embed_query(t)
    \/ \E t \in Callers, qvec \in ThreadQueryVecs :
           detect_mode_return(t, qvec)

SpecRouterThreads == InitRouter /\ [][NextRouterThreads]_vars

----------------------------------------------------------------------------
(* core/retriever.py *)
(* A score is kept in hundredths.  The collection is a part of Catalogue,  *)
(* whose points carry their similarity to the query in hand.               *)

TOP_K == 6
OUT_OF_SCOPE_THRESHOLD == 30

\* every namespace is asked for its share of TOP_K only
half_of_top_k == TOP_K \div 2

AMBIGUOUS_K_PER_NS == TOP_K

Point(id, personality_ns, content_type, score) ==
    [id |-> id, personality_ns |-> personality_ns,
     content_type |-> content_type, score |-> score]

Catalogue ==
    {Point(1, "technical", "code", 90),
     Point(2, "technical", "documentation", 70),
     Point(3, "technical", "code", 50),
     Point(4, "technical", "documentation", 40),
     Point(5, "technical", "code", 31),
     Point(6, "technical", "documentation", 30),
     Point(7, "technical", "code", 29),
     Point(8, "nontechnical", "documentation", 85),
     Point(9, "nontechnical", "documentation", 60),
     Point(10, "nontechnical", "documentation", 70),
     Point(11, "nontechnical", "documentation", 31),
     Point(12, "nontechnical", "documentation", 31)}

\* content_types: None, or a list of content types
ContentTypeLists == {<<>>, <<"code">>, <<"documentation">>}

Min(a, b) == IF a <= b THEN a ELSE b

\* s[:n]
Take(s, n) == SubSeq(s, 1, Min(n, Len(s)))

\* the filter without its content_type condition
matches_namespace(p, namespace, content_types) ==
    p.personality_ns = namespace

\* lines 47-61: the filter of the search
Matches(p, namespace, content_types) ==
    /\ p.personality_ns = namespace
    /\ (content_types # <<>> => p.content_type \in Range(content_types))

\* the points of S by decreasing score, as Qdrant ranks them
RECURSIVE Ranked(_)
Ranked(S) ==
    IF S = {} THEN <<>>
    ELSE LET top == CHOOSE p \in S :
                        \A q \in S :
                            \/ q.score < p.score
                            \/ (q.score = p.score /\ q.id >= p.id)
         IN <<top>> \o Ranked(S \ {top})

\* lines 63-69: client.query_points
query_points(pts, namespace, content_types, limit) ==
    Take(Ranked({p \in pts : Matches(p, namespace, content_types)}), limit)

\* lines 71-85: a RetrievedChunk for every point returned
_query_namespace(pts, namespace, limit, content_types) ==
    LET results == query_points(pts, namespace, content_types, limit)
    IN [i \in 1..Len(results) |->
           [text |-> results[i].id,
            score |-> results[i].score,
            personality_ns |-> results[i].personality_ns,
            content_type |-> results[i].content_type]]

\* a chunk is put before the chunks of its score
insert_before_equal(s, c) ==
    LET k == Cardinality({i \in 1..Len(s) : s[i].score > c.score})
    IN SubSeq(s, 1, k) \o <<c>> \o SubSeq(s, k + 1, Len(s))

\* sorted(chunks, key=lambda c: c.score, reverse=True): equal scores keep
\* the order they had
InsertChunk(s, c) ==
    LET k == Cardinality({i \in 1..Len(s) : s[i].score >= c.score})
    IN SubSeq(s, 1, k) \o <<c>> \o SubSeq(s, k + 1, Len(s))

RECURSIVE sorted_by_score(_)
sorted_by_score(chunks) ==
    IF chunks = <<>> THEN <<>>
    ELSE InsertChunk(sorted_by_score(SubSeq(chunks, 1, Len(chunks) - 1)),
                     chunks[Len(chunks)])

\* line 134 with "<=" for "<"
at_most_threshold(score) == score <= OUT_OF_SCOPE_THRESHOLD

\* line 134
below_threshold(score) == score < OUT_OF_SCOPE_THRESHOLD

\* line 134
out_of_scope(chunks) == Len(chunks) = 0 \/ below_threshold(chunks[1].score)

\* an exception leaves retrieve; got is what the searches had returned
Raised(got) == [kind |-> "raised", got |-> got]

\* the chunks collected so far are returned as if the call had succeeded
partial_result(r) ==
    [kind |-> "returned", namespace |-> r.namespace,
     content_types |-> r.content_types, searched |-> r.searched,
     chunks |-> r.all_chunks, out_of_scope |-> out_of_scope(r.all_chunks)]

\* lines 113-132: no try statement around the embedding call or a search
on_error(r) == Raised(r.all_chunks)

\* lines 113-115: retrieve is entered, the query is sent to be embedded
retrieve_call(namespace, content_types) ==
    /\ retrieval.pc = "idle"
    /\ retrieval' = [NoRetrieval EXCEPT !.pc = "embedding",
                                        !.namespace = namespace,
                                        !.content_types = content_types]
    /\ outcome' = NoOutcome
    /\ UNCHANGED scored
    /\ Frame("retriever")

\* line 115: the embedding call raises
retrieve_embedding_raises ==
    /\ retrieval.pc = "embedding"
    /\ outcome' = on_error(retrieval)
    /\ retrieval' = NoRetrieval
    /\ UNCHANGED scored
    /\ Frame("retriever")

\* lines 115-125, 132: the query vector arrives
retrieve_embedded ==
    /\ retrieval.pc = "embedding"
    /\ retrieval' = [retrieval EXCEPT
                        !.pc = "search",
                        !.to_query = IF retrieval.namespace = "ambiguous"
                                     THEN namespaces
                                     ELSE <<retrieval.namespace>>]
    /\ UNCHANGED <<scored, outcome>>
    /\ Frame("retriever")

\* lines 126-128, 132: one search is made and answered
retrieve_search ==
    /\ retrieval.pc = "search"
    /\ retrieval.to_query # <<>>
    /\ LET ns == Head(retrieval.to_query)
           limit == IF retrieval.namespace = "ambiguous"
                    THEN AMBIGUOUS_K_PER_NS ELSE TOP_K IN
         retrieval' = [retrieval EXCEPT
             !.to_query = Tail(@),
             !.all_chunks = @ \o _query_namespace(scored, ns, limit,
                                                  retrieval.content_types),
             !.searched = Append(@, [namespace |-> ns, limit |-> limit])]
    /\ UNCHANGED <<scored, outcome>>
    /\ Frame("retriever")

\* lines 63-69: client.query_points raises
retrieve_search_raises ==
    /\ retrieval.pc = "search"
    /\ retrieval.to_query # <<>>
    /\ outcome' = on_error(retrieval)
    /\ retrieval' = NoRetrieval
    /\ UNCHANGED scored
    /\ Frame("retriever")

\* lines 130-135
retrieve_return ==
    /\ retrieval.pc = "search"
    /\ retrieval.to_query = <<>>
    /\ LET chunks == IF retrieval.namespace = "ambiguous"
                     THEN Take(sorted_by_score(retrieval.all_chunks), TOP_K)
                     ELSE retrieval.all_chunks IN
         outcome' = [kind |-> "returned",
                     namespace |-> retrieval.namespace,
                     content_types |-> retrieval.content_types,
                     searched |-> retrieval.searched,
                     chunks |-> chunks,
                     out_of_scope |-> out_of_scope(chunks)]
    /\ retrieval' = NoRetrieval
    /\ UNCHANGED scored
    /\ Frame("retriever")

InitRetriever ==
    /\ Rest("retriever")
    /\ scored \in SUBSET Catalogue
    /\ retrieval = NoRetrieval
    /\ outcome = NoOutcome

NextRetriever ==
    \/ \E namespace \in Range(namespaces) \cup {"ambiguous"},
          content_types \in ContentTypeLists :
           retrieve_call(namespace, content_types)
    \/ retrieve_embedding_raises
    \/ retrieve_embedded
    \/ retrieve_search
    \/ retrieve_search_raises
    \/ retrieve_return

SpecRetriever == InitRetriever /\ [][NextRetriever]_vars

----------------------------------------------------------------------------
(* ingest/gdrive_reader.py *)

\* config.py; the docstring of the class gives the delays 5s, 10s, 20s, 40s
GDRIVE_RETRY_MAX_ATTEMPTS == 5
GDRIVE_RETRY_BASE_DELAY == 5

\* what GoogleDriveReader.load_data can return
DocumentLists == {<<>>, <<"doc1">>, <<"doc1", "doc2">>}

\* the HttpError instances it can raise: status and the reason in str(e)
HttpErrors ==
    [type : {"HttpError"}, status : {403, 429},
     reason : {"userRateLimitExceeded", "dailyLimitExceeded"}]

\* what else it can raise (authentication, network)
OtherErrors == {[type |-> "Exception", status |-> 0, reason |-> "network"]}

\* every HttpError is taken for a rate-limit error
is_http_error(e) == e.type = "HttpError"

\* lines 47-50
is_rate_limit(e) ==
    e.type = "HttpError" /\ e.status = 403
        /\ e.reason = "userRateLimitExceeded"

\* line 54 with the bound of the loop for its last index
is_after_last_attempt(attempt) == attempt = GDRIVE_RETRY_MAX_ATTEMPTS

\* line 54
is_last_attempt(attempt) == attempt = GDRIVE_RETRY_MAX_ATTEMPTS - 1

\* line 32
backoff_delay(attempt) == GDRIVE_RETRY_BASE_DELAY * (2 ^ (attempt - 1))

\* the call ends: what the caller gets, and what the call did
Ended(r, how, value, settled) ==
    [kind |-> how, value |-> value, calls |-> r.calls, waits |-> r.waits,
     responses |-> r.responses, settled |-> settled]

\* line 28: load_data is entered (line 68 when the loop has no iteration)
load_data_call ==
    /\ reader.pc = "idle"
    /\ IF GDRIVE_RETRY_MAX_ATTEMPTS > 0
       THEN /\ reader' = [NoLoad EXCEPT !.pc = "try"]
            /\ UNCHANGED loaded
       ELSE /\ loaded' = Ended(NoLoad, "raised",
                               [type |-> "RuntimeError", status |-> 0,
                                reason |-> "retry"], FALSE)
            /\ UNCHANGED reader
    /\ Frame("reader")

\* lines 31-37: the backoff sleep of a retry, then the request
load_data_request ==
    /\ reader.pc = "try"
    /\ reader' = [reader EXCEPT
                     !.pc = "request",
                     !.calls = @ + 1,
                     !.waits = IF reader.attempt > 0
                               THEN Append(@, backoff_delay(reader.attempt))
                               ELSE @]
    /\ UNCHANGED loaded
    /\ Frame("reader")

\* lines 37-43: the documents arrive
load_data_return(docs) ==
    /\ reader.pc = "request"
    /\ LET r == [reader EXCEPT !.responses =
                     Append(@, [type |-> "documents", docs |-> docs])] IN
         loaded' = Ended(r, "returned", docs, reader.attempt > 0)
    /\ reader' = NoLoad
    /\ Frame("reader")

\* lines 45-65: the parent raises e
load_data_except(e) ==
    /\ reader.pc = "request"
    /\ LET r == [reader EXCEPT !.responses = Append(@, e)] IN
         IF is_rate_limit(e) /\ ~is_last_attempt(reader.attempt)
         THEN /\ IF reader.attempt + 1 < GDRIVE_RETRY_MAX_ATTEMPTS
                 THEN /\ reader' = [r EXCEPT !.pc = "try",
                                             !.attempt = @ + 1]
                      /\ UNCHANGED loaded
                 ELSE /\ loaded' = Ended(r, "raised",
                                         [type |-> "RuntimeError",
                                          status |-> 0, reason |-> "retry"],
                                         FALSE)
                      /\ reader' = NoLoad
         ELSE /\ loaded' = Ended(r, "raised", e, FALSE)
              /\ reader' = NoLoad
    /\ Frame("reader")

InitReader ==
    /\ Rest("reader")
    /\ ReaderRest

NextReader ==
    \/ load_data_call
    \/ load_data_request
    \/ \E docs \in DocumentLists : load_data_return(docs)
    \/ \E e \in HttpErrors \cup OtherErrors : load_data_except(e)

\* time.sleep returns, and the request to Drive is answered or fails
ReaderProgress ==
    \/ load_data_request
    \/ \E docs \in DocumentLists : load_data_return(docs)
    \/ \E e \in HttpErrors \cup OtherErrors : load_data_except(e)

SpecReader ==
    InitReader /\ [][NextReader]_vars /\ WF_vars(ReaderProgress)

----------------------------------------------------------------------------
(* ingest/embedder.py: ensure_collection *)

MaxEnsures == 5
MaxStored == 3

KeywordIndex(field_name) ==
    [field_name |-> field_name, field_schema |-> "keyword"]

\* line 25: the collections are listed, the call counted
ensure_collection_call ==
    /\ ensuring.pc = "idle"
    /\ ensured.calls < MaxEnsures
    /\ ensuring' = [pc |-> "listed", before |-> collection]
    /\ ensured' = [calls |-> ensured.calls + 1, last |-> "running"]
    /\ UNCHANGED collection
    /\ Frame("collection")

\* line 27: the name is in the list, nothing is done
ensure_collection_exists ==
    /\ ensuring.pc = "listed"
    /\ ensuring.before.exists
    /\ ensuring' = NotEnsuring
    /\ ensured' = [ensured EXCEPT !.last = "returned"]
    /\ UNCHANGED collection
    /\ Frame("collection")

\* lines 28-31: create_collection
ensure_collection_create ==
    /\ ensuring.pc = "listed"
    /\ ~ensuring.before.exists
    /\ collection' = [exists |-> TRUE, created |-> collection.created + 1,
                      indexes |-> {}, size |-> 0]
    /\ ensuring' = [ensuring EXCEPT !.pc = "created"]
    /\ UNCHANGED ensured
    /\ Frame("collection")

\* lines 32-36: create_payload_index on personality_ns
ensure_collection_index_ns ==
    /\ ensuring.pc = "created"
    /\ collection' = [collection EXCEPT
                         !.indexes = @ \cup {KeywordIndex("personality_ns")}]
    /\ ensuring' = [ensuring EXCEPT !.pc = "indexed"]
    /\ UNCHANGED ensured
    /\ Frame("collection")

\* lines 38-43: create_payload_index on content_type, and the return
ensure_collection_index_ct ==
    /\ ensuring.pc = "indexed"
    /\ collection' = [collection EXCEPT
                         !.indexes = @ \cup {KeywordIndex("content_type")}]
    /\ ensuring' = NotEnsuring
    /\ ensured' = [ensured EXCEPT !.last = "returned"]
    /\ Frame("collection")

\* lines 28-42: a call to Qdrant raises, or the process is killed
ensure_collection_raises ==
    /\ \/ ensuring.pc = "listed" /\ ~ensuring.before.exists
       \/ ensuring.pc \in {"created", "indexed"}
    /\ ensuring' = NotEnsuring
    /\ ensured' = [ensured EXCEPT !.last = "raised"]
    /\ UNCHANGED collection
    /\ Frame("collection")

\* upsert_nodes, lines 106-166: points are written after ensure_collection
client_upsert ==
    /\ ensuring.pc = "idle"
    /\ ensured.last = "returned"
    /\ collection.exists
    /\ collection.size < MaxStored
    /\ collection' = [collection EXCEPT !.size = @ + 1]
    /\ UNCHANGED <<ensuring, ensured>>
    /\ Frame("collection")

InitCollection ==
    /\ Rest("collection")
    /\ CollectionRest

NextCollection ==
    \/ ensure_collection_call
    \/ ensure_collection_exists
    \/ ensure_collection_create
    \/ ensure_collection_index_ns
    \/ ensure_collection_index_ct
    \/ ensure_collection_raises
    \/ client_upsert

SpecCollection == InitCollection /\ [][NextCollection]_vars

----------------------------------------------------------------------------
(* ingest/embedder.py: _embed_texts and upsert_nodes *)
(* EMBED_BATCH_SIZE is 128 in embedder.py; the model takes a batch size    *)
(* that a list of MaxNodes texts spans.                                    *)

EMBED_BATCH_SIZE == 2

\* node.get_content(): empty, whitespace only, or with content
Texts == {"", " ", "a", "b"}

\* str.strip()
strip(text) == IF text = " " THEN "" ELSE text

\* the truth value of a str
truthy(text) == text # ""

\* nodes of one document: the node ids are distinct
NodeLists ==
    UNION {[1..n -> Texts] : n \in 0..MaxNodes}

Node(id, content) == [node_id |-> id, content |-> content]

NodesOf(contents) ==
    [i \in 1..Len(contents) |-> Node(i, contents[i])]

\* lines 93-96
RECURSIVE valid_nodes_of(_)
valid_nodes_of(nodes) ==
    IF nodes = <<>> THEN <<>>
    ELSE LET node == Head(nodes) IN
         (IF truthy(node.content) /\ truthy(strip(node.content))
          THEN <<node>> ELSE <<>>) \o valid_nodes_of(Tail(nodes))

\* the vector the provider computes for a text
embedding_of(text) == [of |-> text]

Permutations_of(n) ==
    {f \in [1..n -> 1..n] : \A i, j \in 1..n : f[i] = f[j] => i = j}

\* _oai.embeddings.create: one item per input, each with the index of its
\* input, in the order the provider chooses
embeddings_create(batch, order) ==
    [i \in 1..Len(batch) |->
        [index |-> order[i] - 1, embedding |-> embedding_of(batch[order[i]])]]

\* resp.data used as it came
as_returned(data) == data

\* line 57: sorted(resp.data, key=lambda d: d.index)
RECURSIVE sorted_by_index(_)
sorted_by_index(data) ==
    IF data = <<>> THEN <<>>
    ELSE LET i == CHOOSE i \in 1..Len(data) :
                     \A j \in 1..Len(data) :
                         /\ data[i].index <= data[j].index
                         /\ (data[i].index = data[j].index => i <= j)
             rest == [j \in 1..(Len(data) - 1) |->
                         IF j < i THEN data[j] ELSE data[j + 1]]
         IN <<data[i]>> \o sorted_by_index(rest)

\* lines 136-162: zip stops at the shorter list
zip_points(valid_nodes, vectors) ==
    [i \in 1..Min(Len(valid_nodes), Len(vectors)) |->
        [id |-> valid_nodes[i].node_id, vector |-> vectors[i]]]

\* line 165: client.upsert writes every point under its id
client_upsert_points(pts, new_points) ==
    [id \in NodeIds |->
        IF \E i \in 1..Len(new_points) : new_points[i].id = id
        THEN LET last == CHOOSE i \in 1..Len(new_points) :
                            /\ new_points[i].id = id
                            /\ \A j \in 1..Len(new_points) :
                                   new_points[j].id = id => j <= i
             IN new_points[last].vector
        ELSE pts[id]]

\* lines 89-108: nothing to write, or the texts go to _embed_texts
upsert_nodes_call(nodes) ==
    /\ upserting.pc = "idle"
    /\ LET valid_nodes == valid_nodes_of(nodes) IN
         upserting' =
             [pc |-> IF valid_nodes = <<>> THEN "returned" ELSE "embedding",
              nodes |-> nodes,
              valid_nodes |-> valid_nodes,
              texts |-> [i \in 1..Len(valid_nodes) |->
                            valid_nodes[i].content],
              start |-> 0, all_vectors |-> <<>>, requests |-> <<>>,
              responses |-> <<>>]
    /\ UNCHANGED stored
    /\ Frame("upsert")

\* lines 53-58: one batch is embedded
_embed_texts_batch(order) ==
    /\ upserting.pc = "embedding"
    /\ LET texts == upserting.texts
           start == upserting.start
           batch == SubSeq(texts, start + 1,
                           Min(start + EMBED_BATCH_SIZE, Len(texts)))
       IN
         /\ order \in Permutations_of(Len(batch))
         /\ LET resp_data == embeddings_create(batch, order)
                sorted_data == sorted_by_index(resp_data)
            IN upserting' =
                 [upserting EXCEPT
                    !.all_vectors =
                        @ \o [i \in 1..Len(sorted_data) |->
                                 sorted_data[i].embedding],
                    !.requests = Append(@, batch),
                    !.responses = Append(@, resp_data),
                    !.start = start + EMBED_BATCH_SIZE,
                    !.pc = IF start + EMBED_BATCH_SIZE < Len(texts)
                           THEN "embedding" ELSE "embedded"]
    /\ UNCHANGED stored
    /\ Frame("upsert")

\* lines 135-166: the points are built and written
upsert_nodes_upsert ==
    /\ upserting.pc = "embedded"
    /\ stored' = client_upsert_points(
                     stored,
                     zip_points(upserting.valid_nodes, upserting.all_vectors))
    /\ upserting' = [upserting EXCEPT !.pc = "returned"]
    /\ Frame("upsert")

\* lines 55, 106 and 165: a request to the provider or to Qdrant raises
upsert_nodes_raises ==
    /\ upserting.pc \in {"embedding", "embedded"}
    /\ upserting' = [upserting EXCEPT !.pc = "raised"]
    /\ UNCHANGED stored
    /\ Frame("upsert")

\* the caller goes on
upsert_nodes_done ==
    /\ upserting.pc \in {"returned", "raised"}
    /\ upserting' = NotUpserting
    /\ UNCHANGED stored
    /\ Frame("upsert")

InitUpsert ==
    /\ Rest("upsert")
    /\ UpsertRest

NextUpsert ==
    \/ \E contents \in NodeLists : upsert_nodes_call(NodesOf(contents))
    \/ \E order \in Permutations_of(EMBED_BATCH_SIZE) \cup Permutations_of(1) :
           _embed_texts_batch(order)
    \/ upsert_nodes_upsert
    \/ upsert_nodes_raises
    \/ upsert_nodes_done

SpecUpsert == InitUpsert /\ [][NextUpsert]_vars

----------------------------------------------------------------------------
(* ingest/embedder.py: _upsert_with_retry *)
(* The interpreter raises RecursionError when the call stack reaches its   *)
(* limit (1000 frames by default); the model takes a smaller limit.        *)

RecursionLimit == 50
MaxRetries == 3

\* the default of the parameter retries
DefaultRetries == 3

\* line 64: the function is called with retries; a loop of no iteration
\* returns at once
_upsert_with_retry_call(retries) ==
    /\ retrying.pc = "idle"
    /\ retrying' = [NotRetrying EXCEPT
                       !.pc = IF retries > 0 THEN "try" ELSE "returned",
                       !.retries = retries,
                       !.frames = 1]
    /\ Frame("retry")

\* lines 65-68: the first iteration of the frame on top calls the function
\* again, with the default retries; client.upsert is not called
_upsert_with_retry_recurse ==
    /\ retrying.pc = "try"
    /\ retrying.frames < RecursionLimit
    /\ DefaultRetries > 0
    /\ retrying' = [retrying EXCEPT !.frames = @ + 1]
    /\ Frame("retry")

\* line 68 at the stack limit: RecursionError, which no frame catches
\* (line 70 catches ResponseHandlingException only)
_upsert_with_retry_overflow ==
    /\ retrying.pc = "try"
    /\ retrying.frames = RecursionLimit
    /\ retrying' = [retrying EXCEPT !.pc = "raised",
                                    !.frames = 0,
                                    !.error = "RecursionError"]
    /\ Frame("retry")

\* the caller goes on
_upsert_with_retry_done ==
    /\ retrying.pc \in {"returned", "raised"}
    /\ retrying' = NotRetrying
    /\ Frame("retry")

InitRetry ==
    /\ Rest("retry")
    /\ RetryRest

NextRetry ==
    \/ \E retries \in 0..MaxRetries : _upsert_with_retry_call(retries)
    \/ _upsert_with_retry_recurse
    \/ _upsert_with_retry_overflow
    \/ _upsert_with_retry_done

SpecRetry == InitRetry /\ [][NextRetry]_vars

----------------------------------------------------------------------------
(* Properties *)

Running == {"fetch", "examine", "ingest"}

PointsIn(pts, k) == {p \in pts : p[1] = k}

\* the chunk ids the content c of key k is ingested under
IdsOf(k, c) == tag_and_chunk(k, c, NsOf(k, c), CtOf(k))

\* the content a fingerprint identifies
ContentOf(fp) == [v |-> fp[1], n |-> fp[2]]

\* the loop has examined every document and the ledger is about to be saved
EndOfLoop == pc = "examine" /\ todo = <<>>

\* the documents of the loop that has just ended
InLoop(k) == Present(k) /\ (kind = "github" => RepoOf(k) = Head(repoq))

\* the step ends the iteration of the document in hand by skipping it
SkipStep ==
    /\ pc = "examine"
    /\ todo # <<>>
    /\ skipped_count' = skipped_count + 1

\* C1: with FORCE_REINDEX off, a pass that repeats a pass completed without
\* error over the same upstream documents issues no delete and no upsert,
\* leaves the ledger as it is and counts every document as skipped.
C1_RerunIsNoOp ==
    [][(rerun /\ ~FORCE_REINDEX /\ pc \in Running /\ pc' # "idle") =>
           /\ pc' \notin {"ingest", "aborted"}
           /\ points' = points
           /\ store' = store
           /\ disk' = disk
           /\ (pc = "examine" /\ todo # <<>> => SkipStep)]_vars

\* C2: ingest_folder and ingest_github: when the loop ends, a document whose
\* ledger entry had another fingerprint and more chunk ids than the new
\* content yields has exactly the new chunk ids in the collection and in
\* its ledger entry.
C2_ShrinkReconciled ==
    (kind \in {"gdrive", "github"} /\ EndOfLoop) =>
        \A k \in Keys :
            (/\ InLoop(k)
             /\ disk.data[k].in
             /\ disk.data[k].fp # Fingerprint(upstream[k])
             /\ Len(disk.data[k].ids) > upstream[k].n)
            => /\ PointsOfKey(k) = Range(IdsOf(k, upstream[k]))
               /\ store[k].ids = IdsOf(k, upstream[k])

\* C3: ingest_synthetic: when the loop ends without error, a file whose
\* ledger entry had another content hash and more chunk ids than the new
\* content yields has exactly the new chunk ids in the collection and in
\* its ledger entry.
C3_SyntheticShrinkReconciled ==
    (kind = "synthetic" /\ EndOfLoop /\ raised = 0) =>
        \A k \in Keys :
            (/\ Present(k)
             /\ disk.data[k].in
             /\ disk.data[k].fp # Fingerprint(upstream[k])
             /\ Len(disk.data[k].ids) > upstream[k].n)
            => /\ PointsOfKey(k) = Range(IdsOf(k, upstream[k]))
               /\ store[k].ids = IdsOf(k, upstream[k])

\* C4: after a pass that completed without error, the chunk ids the ledger
\* records for a source key are exactly the points of that key in the
\* collection.
C4_LedgerAgreesWithStore ==
    (pc = "done" /\ raised = 0) =>
        \A k \in Keys :
            disk.data[k].in => Range(disk.data[k].ids) = PointsOfKey(k)

\* C5: whatever FORCE_REINDEX and RESUME_MODE are, a document is skipped
\* only if the ledger has an entry for it with the fingerprint just read.
C5_SkipOnlyUnchanged ==
    [][SkipStep =>
           /\ store[Head(todo)].in
           /\ store[Head(todo)].fp = Fingerprint(upstream[Head(todo)])]_vars

\* C6: an exception raised by one document is caught and counted as an
\* error, and the loop goes on with the next document.
C6_FailureIsolated ==
    [][raised' = raised + 1 =>
           /\ pc' = "examine"
           /\ todo' = Tail(todo)
           /\ error_count' = error_count + 1]_vars

\* C7: whatever passes were cut short before, after a pass that completed
\* without error the collection holds for every document of the pass
\* exactly the chunk ids of the content last ingested for it.
C7_CrashTolerant ==
    (pc = "done" /\ raised = 0) =>
        \A k \in Keys :
            Present(k) =>
                /\ disk.data[k].in
                /\ PointsOfKey(k) =
                       Range(IdsOf(k, ContentOf(disk.data[k].fp)))

\* C8: a document whose chunking, embedding or upsert failed keeps its
\* ledger entry, in memory and in the file, and the next pass that
\* examines it does not skip it.
C8_FailedIsRetried ==
    [][/\ \A k \in failed' :
              (pc # "idle" /\ pc' # "idle") =>
                  /\ store'[k] = store[k]
                  /\ disk'.data[k] = disk.data[k]
       /\ (pc = "examine" /\ todo # <<>> /\ Head(todo) \in failed)
              => ~SkipStep]_vars

\* C9: when the chunking, embedding or upsert of a document fails, the
\* points of that document are those it had when the pass came to it, and
\* its ledger entry is unchanged.
C9_FailureLeavesNoChange ==
    [][(pc = "ingest" /\ raised' = raised + 1 /\ Head(todo) \in failed') =>
           /\ PointsIn(points', Head(todo)) = prior
           /\ store'[Head(todo)] = store[Head(todo)]]_vars

\* C10: a pass that finds its ledger file corrupt starts with an empty
\* ledger and goes on.
C10_CorruptLedgerIsEmpty ==
    [][(pc = "idle" /\ disk.state = "corrupt" /\ pc' # "idle") =>
           /\ pc' # "load_error"
           /\ store' = EmptyStore]_vars

\* C11: a document whose text is empty or whitespace-only is counted as
\* skipped, not as new or changed, and raises nothing (steps in which the
\* process is killed or the delete of its old points fails are left out).
C11_EmptyIsSkipped ==
    [][(/\ pc = "examine"
        /\ todo # <<>>
        /\ upstream[Head(todo)].n = 0
        /\ pc' \notin {"idle", "aborted"}) =>
           /\ SkipStep
           /\ pc' = "examine"
           /\ new_count' = new_count
           /\ changed_count' = changed_count
           /\ raised' = raised]_vars

\* the four values the id of a chunk is derived from
IdentityOf(p) ==
    <<p.file_id, p.node.personality_ns, p.node.content_type,
      p.node.chunk_index>>

\* C12: two chunks with the same source key, namespace, content type and
\* chunk index have the same id, whatever their text and their ingestion
\* time are.
C12_IdFromIdentityOnly ==
    \A p \in produced, q \in produced :
        IdentityOf(p) = IdentityOf(q) => p.node_id = q.node_id

C12_Witness ==
    \E p \in produced, q \in produced :
        /\ IdentityOf(p) = IdentityOf(q)
        /\ p.node.text # q.node.text
        /\ p.node.ingested_at # q.node.ingested_at
        /\ p.node.metadata # q.node.metadata

\* the best similarity of a query vector to the utterances of a namespace
BestOf(qvec, ns) == Max({qvec[_ANCHORS[ns][i]] : i \in 1..Len(_ANCHORS[ns])})

\* C13: detect_mode returns one score per namespace, the maximum cosine
\* similarity of the query to the utterances of the namespace; it returns
\* "ambiguous" exactly when the best score minus the second best is below
\* CONFIDENCE_THRESHOLD, and otherwise the namespace of the best score
\* (0.90 against 0.83: ambiguous; 0.90 against 0.80: the first).
C13_MarginRule ==
    answer # NoAnswer =>
        LET t == answer.scores["technical"]
            n == answer.scores["nontechnical"]
            margin == IF t >= n THEN t - n ELSE n - t
        IN /\ DOMAIN answer.scores = {"technical", "nontechnical"}
           /\ t = BestOf(answer.qvec, "technical")
           /\ n = BestOf(answer.qvec, "nontechnical")
           /\ (answer.mode = "ambiguous") <=> (margin < CONFIDENCE_THRESHOLD)
           /\ (answer.mode # "ambiguous" /\ t > n) => answer.mode = "technical"
           /\ (answer.mode # "ambiguous" /\ n > t) =>
                  answer.mode = "nontechnical"
           /\ (t = 90 /\ n = 83) => answer.mode = "ambiguous"
           /\ (t = 90 /\ n = 80) => answer.mode = "technical"

\* the margin equals the threshold and the second namespace wins
C13_Witness ==
    /\ answer # NoAnswer
    /\ answer.scores["technical"] = 82
    /\ answer.scores["nontechnical"] = 90
    /\ answer.mode = "nontechnical"
    /\ answer.qvec["quantization"] # answer.qvec["pruning"]

\* C18: whatever the interleaving of the detect_mode calls, no utterance is
\* sent to the embedding model more than once; a call that started with
\* the cache complete sends one embedding request, the query, and leaves
\* the cache as it is.
C18_CacheBuiltOnce ==
    [][/\ \A utt \in DOMAIN embedded' : embedded'[utt] <= 1
       /\ \A t \in Callers :
              (call[t].pc # "idle" /\ call[t].warm) =>
                  /\ _utterance_vecs' = _utterance_vecs
                  /\ (call'[t].pc = "idle" => call[t].requests = 1)]_vars

\* the chunk retrieve makes of a point
AsChunk(p) ==
    [text |-> p.id, score |-> p.score, personality_ns |-> p.personality_ns,
     content_type |-> p.content_type]

\* the chunks of the points of pts that a search of some namespace of nss
\* matches
Candidates(pts, nss, content_types) ==
    {AsChunk(p) : p \in {q \in pts : \E i \in 1..Len(nss) :
                                       Matches(q, nss[i], content_types)}}

NoTies(S) == \A c \in S, d \in S : c # d => c.score # d.score

Reverse(s) == [i \in 1..Len(s) |-> s[Len(s) + 1 - i]]

RECURSIVE Concat(_)
Concat(lists) ==
    IF lists = <<>> THEN <<>> ELSE Head(lists) \o Concat(Tail(lists))

\* lines 124-130 for the namespace list nss and the limit k
merged(pts, nss, content_types, k) ==
    Take(sorted_by_score(
             Concat([i \in 1..Len(nss) |->
                        _query_namespace(pts, nss[i], k, content_types)])),
         k)

\* C14: for namespace "ambiguous", retrieve searches every namespace of the
\* list once with the limit TOP_K and returns the TOP_K best chunks of all
\* matching points (all of them when there are fewer) by decreasing score;
\* when no two of them have the same score the result is the same for the
\* reversed namespace list.  Scores [0.9, 0.7] and [0.85, 0.6] with k = 2
\* give [0.9, 0.85] in either order.
C14_AmbiguousMerge ==
    (outcome.kind = "returned" /\ outcome.namespace = "ambiguous") =>
        LET U == Candidates(scored, namespaces, outcome.content_types)
            c == outcome.chunks
            A == {p \in Catalogue : p.id \in {1, 2}}
            B == {p \in Catalogue : p.id \in {8, 9}}
            top2 == <<AsChunk(Point(1, "technical", "code", 90)),
                      AsChunk(Point(8, "nontechnical", "documentation", 85))>>
        IN /\ Len(outcome.searched) = Len(namespaces)
           /\ \A i \in 1..Len(namespaces) :
                  /\ outcome.searched[i].namespace = namespaces[i]
                  /\ outcome.searched[i].limit = TOP_K
           /\ Range(c) \subseteq U
           /\ Len(c) = Min(TOP_K, Cardinality(U))
           /\ Cardinality(Range(c)) = Len(c)
           /\ \A i \in 1..Len(c), j \in 1..Len(c) :
                  i < j => c[i].score >= c[j].score
           /\ \A u \in U \ Range(c), i \in 1..Len(c) : u.score <= c[i].score
           /\ NoTies(U) =>
                  c = merged(scored, Reverse(namespaces),
                             outcome.content_types, TOP_K)
           /\ merged(A \cup B, namespaces, <<>>, 2) = top2
           /\ merged(A \cup B, Reverse(namespaces), <<>>, 2) = top2

\* more than TOP_K chunks match, no two with the same score, and the
\* result mixes the namespaces
C14_Witness ==
    /\ outcome.kind = "returned"
    /\ outcome.namespace = "ambiguous"
    /\ LET U == Candidates(scored, namespaces, outcome.content_types) IN
         /\ Cardinality(U) > TOP_K
         /\ NoTies(U)
    /\ outcome.chunks[1].personality_ns = "technical"
    /\ outcome.chunks[2].personality_ns = "nontechnical"
    /\ outcome.chunks[TOP_K].personality_ns = "technical"

\* C15: for every namespace argument, out_of_scope is true exactly when the
\* returned list is empty or its highest score is below
\* OUT_OF_SCOPE_THRESHOLD; a highest score equal to the threshold gives
\* false, and an empty result is returned as ([], True).
C15_OutOfScope ==
    outcome.kind = "returned" =>
        LET c == outcome.chunks
            highest == Max({c[i].score : i \in 1..Len(c)})
        IN /\ outcome.out_of_scope <=>
                  (c = <<>> \/ highest < OUT_OF_SCOPE_THRESHOLD)
           /\ (c # <<>> /\ highest = OUT_OF_SCOPE_THRESHOLD) =>
                  ~outcome.out_of_scope
           /\ Candidates(scored,
                         IF outcome.namespace = "ambiguous" THEN namespaces
                         ELSE <<outcome.namespace>>,
                         outcome.content_types) = {} =>
                  (c = <<>> /\ outcome.out_of_scope)

\* the best chunk returned has exactly the threshold score
C15_Witness ==
    /\ outcome.kind = "returned"
    /\ outcome.chunks # <<>>
    /\ outcome.chunks[1].score = OUT_OF_SCOPE_THRESHOLD
    /\ ~outcome.out_of_scope
    /\ Len(outcome.chunks) > 1

\* C16: for namespace "technical" or "nontechnical", retrieve makes one
\* search, of that namespace with limit TOP_K, and returns its results as
\* they came: at most TOP_K chunks, all of that namespace, all of a content
\* type of content_types when the list is given, by non-increasing score.
C16_ConcreteNamespace ==
    (outcome.kind = "returned" /\ outcome.namespace # "ambiguous") =>
        LET c == outcome.chunks
            U == Candidates(scored, <<outcome.namespace>>,
                            outcome.content_types)
        IN /\ outcome.searched =
                  <<[namespace |-> outcome.namespace, limit |-> TOP_K]>>
           /\ c = _query_namespace(scored, outcome.namespace, TOP_K,
                                   outcome.content_types)
           /\ Len(c) = Min(TOP_K, Cardinality(U))
           /\ Range(c) \subseteq U
           /\ \A i \in 1..Len(c) :
                  /\ c[i].personality_ns = outcome.namespace
                  /\ outcome.content_types # <<>> =>
                         c[i].content_type \in Range(outcome.content_types)
                  /\ \A j \in 1..Len(c) : i < j => c[i].score >= c[j].score

\* the collection holds more than TOP_K points of the namespace, and
\* points of the other namespace with higher scores than some returned
C16_Witness ==
    /\ outcome.kind = "returned"
    /\ outcome.namespace = "technical"
    /\ Cardinality({p \in scored : p.personality_ns = "technical"}) > TOP_K
    /\ Len(outcome.chunks) = TOP_K
    /\ \E p \in scored :
           /\ p.personality_ns = "nontechnical"
           /\ p.score > outcome.chunks[TOP_K].score

\* C19: a retrieve call in which the embedding call or a search raises
\* ends with the exception and returns no chunk list, whatever the
\* searches before had returned.
C19_ErrorsPropagate ==
    [][(/\ retrieval.pc # "idle"
        /\ retrieval'.pc = "idle"
        /\ retrieval.pc = "embedding" \/ retrieval.to_query # <<>>) =>
           /\ outcome'.kind = "raised"
           /\ DOMAIN outcome' \cap {"chunks", "out_of_scope"} = {}]_vars

\* the second search of an ambiguous call raised after the first had
\* returned chunks
C19_Witness ==
    /\ outcome.kind = "raised"
    /\ outcome.got # <<>>
    /\ retrieval.pc = "idle"

\* C17: load_data calls the parent reader at most GDRIVE_RETRY_MAX_ATTEMPTS
\* times, and again only after a rate-limit error (HttpError 403 with
\* userRateLimitExceeded); it sleeps GDRIVE_RETRY_BASE_DELAY * 2^(k-1)
\* before the k-th retry; it returns the documents of the first call that
\* succeeds, re-raises the rate-limit error of the last attempt, and every
\* call ends.
C17_BoundedRetry ==
    /\ [](\A r \in {reader} \cup ({loaded} \ {NotLoaded}) :
             /\ r.calls <= GDRIVE_RETRY_MAX_ATTEMPTS
             /\ Len(r.waits) = IF r.calls = 0 THEN 0 ELSE r.calls - 1
             /\ \A k \in 1..Len(r.waits) :
                    r.waits[k] = GDRIVE_RETRY_BASE_DELAY * (2 ^ (k - 1))
             /\ \A i \in 1..Len(r.responses) :
                    i < r.calls =>
                        /\ r.responses[i].type = "HttpError"
                        /\ r.responses[i].status = 403
                        /\ r.responses[i].reason = "userRateLimitExceeded")
    /\ [](loaded.kind = "returned" =>
             /\ Len(loaded.responses) = loaded.calls
             /\ loaded.responses[loaded.calls].type = "documents"
             /\ loaded.value = loaded.responses[loaded.calls].docs)
    /\ [](loaded.kind = "raised" =>
             /\ Len(loaded.responses) = loaded.calls
             /\ loaded.value = loaded.responses[loaded.calls]
             /\ (loaded.value.type = "HttpError"
                     /\ loaded.value.status = 403
                     /\ loaded.value.reason = "userRateLimitExceeded") =>
                    loaded.calls = GDRIVE_RETRY_MAX_ATTEMPTS)
    /\ (reader.pc # "idle" ~> reader.pc = "idle")

\* every attempt met the rate limit: four backoff sleeps, then the error
C17_Witness ==
    /\ loaded.kind = "raised"
    /\ loaded.calls = GDRIVE_RETRY_MAX_ATTEMPTS
    /\ loaded.waits = <<5, 10, 20, 40>>
    /\ loaded.value.reason = "userRateLimitExceeded"
    /\ loaded.value.status = 403

\* C20: whatever state Qdrant was left in, a call of ensure_collection that
\* returns leaves the collection existing with keyword indexes on
\* personality_ns and content_type, and a collection that existed when the
\* call began is the same collection, with the points it had.
C20_EnsureIdempotent ==
    [][(ensured.last = "running" /\ ensured'.last = "returned") =>
           /\ collection'.exists
           /\ {KeywordIndex("personality_ns"), KeywordIndex("content_type")}
                  \subseteq collection'.indexes
           /\ ensuring.before.exists =>
                  /\ collection'.created = ensuring.before.created
                  /\ collection'.size = ensuring.before.size]_vars

\* C21: in RESUME_MODE a Drive document that has a ledger entry whose point
\* ids are not all in the collection, or whose id list is empty, is chunked
\* and upserted again in that pass, also when its fingerprint is unchanged
\* (steps in which the process is killed or the delete raises are left
\* out).
C21_ResumeReprocesses ==
    [][(/\ kind = "gdrive"
        /\ pc = "examine"
        /\ todo # <<>>
        /\ RESUME_MODE
        /\ store[Head(todo)].in
        /\ \/ store[Head(todo)].ids = <<>>
           \/ ~(Range(store[Head(todo)].ids) \subseteq points)
        /\ pc' \notin {"idle", "aborted"}) =>
           /\ ~SkipStep
           /\ pc' = "ingest"]_vars

\* C22: ingest_folder and ingest_github: the points a pass removes are
\* exactly the ids the ledger records for the document in hand, removed
\* before the document is chunked; when the new chunks are upserted none of
\* the recorded ids is left in the collection; and the ledger entry of the
\* document is rewritten only in the step in which its upsert has returned.
C22_DeleteBeforeInsert ==
    [][(kind \in {"gdrive", "github"} /\ pc \in Running /\ pc' # "idle") =>
           /\ points' # points => todo # <<>>
           /\ (points \ points') # {} =>
                  /\ pc = "examine" /\ pc' = "ingest"
                  /\ points \ points' =
                         Range(store[Head(todo)].ids) \cap points
                  /\ points' \subseteq points
           /\ (points' \ points) # {} =>
                  /\ pc = "ingest"
                  /\ Range(store[Head(todo)].ids) \cap points = {}
                  /\ points' \ points \subseteq
                         Range(IdsOf(Head(todo), upstream[Head(todo)]))
           /\ \A k \in Keys :
                  store'[k] # store[k] =>
                      /\ pc = "ingest" /\ k = Head(todo)
                      /\ Range(store[k].ids) \cap (points \ points') = {}
                      /\ Range(store'[k].ids) \subseteq points']_vars

\* a document that had recorded chunk ids has been deleted, upserted and
\* recorded again with other ids
C22_Witness ==
    /\ kind \in {"gdrive", "github"}
    /\ pc = "examine"
    /\ changed_count > 0
    /\ \E k \in Keys :
           /\ disk.data[k].ids # <<>>
           /\ store[k].ids # <<>>
           /\ store[k].ids # disk.data[k].ids
           /\ PointsOfKey(k) = Range(store[k].ids)

\* C23: when upsert_nodes returns, every node with content has a point
\* under its own id whose vector is the embedding of its own text, whatever
\* the number of nodes and the order in which the provider returned the
\* items of a batch; a node whose content is empty or whitespace-only has
\* no point written; no request held more than EMBED_BATCH_SIZE texts.
C23_TextVectorCorrespondence ==
    [][(upserting.pc # "returned" /\ upserting'.pc = "returned") =>
           LET nodes == upserting'.nodes IN
           /\ \A i \in 1..Len(nodes) :
                  IF strip(nodes[i].content) # ""
                  THEN stored'[nodes[i].node_id] =
                           embedding_of(nodes[i].content)
                  ELSE stored'[nodes[i].node_id] = stored[nodes[i].node_id]
           /\ \A id \in NodeIds :
                  (\A i \in 1..Len(nodes) : nodes[i].node_id # id) =>
                      stored'[id] = stored[id]
           /\ \A r \in 1..Len(upserting'.requests) :
                  Len(upserting'.requests[r]) <= EMBED_BATCH_SIZE]_vars

\* a call with an empty node and texts in two batches, the provider having
\* returned the items of a batch in another order than it was sent, has
\* returned
C23_Witness ==
    /\ upserting.pc = "returned"
    /\ Len(upserting.requests) = 2
    /\ Len(upserting.valid_nodes) < Len(upserting.nodes)
    /\ upserting.texts[1] # upserting.texts[2]
    /\ upserting.responses[1][1].index = 1
    /\ stored[upserting.valid_nodes[2].node_id] =
           embedding_of(upserting.texts[2])

\* the place of chunk c in the list s
IndexIn(s, c) == CHOOSE i \in 1..Len(s) : s[i] = c

\* C24: for namespace "ambiguous", chunks of equal score are in the result
\* in the order of the namespace list (technical before nontechnical) and,
\* within a namespace, in the order the store returned them; when TOP_K
\* cuts between chunks of equal score, those that come first in that order
\* are the ones kept.
C24_TieBreak ==
    (outcome.kind = "returned" /\ outcome.namespace = "ambiguous") =>
        LET all == Concat([i \in 1..Len(namespaces) |->
                              _query_namespace(scored, namespaces[i], TOP_K,
                                               outcome.content_types)])
            c == outcome.chunks
        IN /\ namespaces = <<"technical", "nontechnical">>
           /\ Range(c) \subseteq Range(all)
           /\ \A i \in 1..Len(c), j \in 1..Len(c) :
                  (i < j /\ c[i].score = c[j].score) =>
                      IndexIn(all, c[i]) < IndexIn(all, c[j])
           /\ \A u \in Range(all) \ Range(c), i \in 1..Len(c) :
                  u.score = c[i].score =>
                      IndexIn(all, c[i]) < IndexIn(all, u)

\* two chunks of equal score from different namespaces are in the result,
\* and TOP_K cuts between chunks of equal score
C24_Witness ==
    /\ outcome.kind = "returned"
    /\ outcome.namespace = "ambiguous"
    /\ Len(outcome.chunks) = TOP_K
    /\ outcome.chunks[2].score = outcome.chunks[3].score
    /\ outcome.chunks[2].personality_ns = "technical"
    /\ outcome.chunks[3].personality_ns = "nontechnical"
    /\ outcome.chunks[TOP_K].personality_ns = "technical"
    /\ \E p \in scored :
           /\ p.score = outcome.chunks[TOP_K].score
           /\ p.personality_ns = "nontechnical"
           /\ AsChunk(p) \notin Range(outcome.chunks)

\* C25: when the Drive reader raises an HttpError that is not a rate-limit
\* error (status 403 with userRateLimitExceeded), or any other exception,
\* on any attempt, load_data raises that error at once: no sleep and no
\* further call of the reader.
C25_OtherErrorsNotRetried ==
    [][reader.pc = "request" =>
           LET responses == IF reader'.pc = "idle" THEN loaded'.responses
                            ELSE reader'.responses
               e == responses[Len(responses)]
           IN (/\ e.type # "documents"
               /\ ~(/\ e.type = "HttpError"
                    /\ e.status = 403
                    /\ e.reason = "userRateLimitExceeded")) =>
                  /\ reader' = NoLoad
                  /\ loaded'.kind = "raised"
                  /\ loaded'.value = e
                  /\ loaded'.calls = reader.calls
                  /\ loaded'.waits = reader.waits]_vars

\* the second attempt met a 403 that is not a rate-limit error
C25_Witness ==
    /\ loaded.kind = "raised"
    /\ loaded.calls = 2
    /\ loaded.waits = <<GDRIVE_RETRY_BASE_DELAY>>
    /\ loaded.value.type = "HttpError"
    /\ loaded.value.status = 403
    /\ loaded.value.reason = "dailyLimitExceeded"

\* C26: a document that a pass processes is counted as new exactly when the
\* ledger had no entry for its key when it was examined, and as changed
\* exactly when the ledger had an entry for it with another fingerprint.
C26_NewVersusChanged ==
    [][(pc = "examine" /\ todo # <<>> /\ pc' = "ingest") =>
           LET k == Head(todo) IN
           /\ new_count' = new_count + 1 <=> ~store[k].in
           /\ changed_count' = changed_count + 1 <=>
                  (store[k].in /\ store[k].fp # Fingerprint(upstream[k]))
           /\ new_count' \in {new_count, new_count + 1}
           /\ changed_count' \in {changed_count, changed_count + 1}]_vars

\* C27: when a pass of ingest_folder or ingest_synthetic prints its summary,
\* new + updated + skipped + errors is the number of documents the pass
\* discovered, whatever failed on the way.
C27_SummaryPartitions ==
    (kind \in {"gdrive", "synthetic"} /\ pc = "done") =>
        new_count + changed_count + skipped_count + error_count =
            Cardinality({k \in Keys : Present(k)})

\* C28: a pass starts from the ledger as it is in the file and changes the
\* ledger entry and the points of the document in hand only, and only of a
\* document it counts as new or changed; a skipped document and a key the
\* pass does not discover (removed upstream, another folder or repository)
\* keep their ledger entry, in memory and in the file, and their points.
C28_PassFrame ==
    [][/\ (pc = "idle" /\ pc' \in Running) =>
              /\ points' = points
              /\ disk' = disk
              /\ \A k \in Keys : store'[k] = disk.data[k]
       /\ (pc \in Running /\ pc' # "idle") =>
              /\ \A k \in Keys :
                     (\/ store'[k] # store[k]
                      \/ PointsIn(points', k) # PointsIn(points, k)) =>
                         /\ todo # <<>>
                         /\ k = Head(todo)
                         /\ \/ pc = "ingest"
                            \/ new_count' + changed_count' =
                                   new_count + changed_count + 1
              /\ SkipStep => (points' = points /\ store' = store)
              /\ \A k \in Keys :
                     disk'.data[k] # disk.data[k] =>
                         /\ disk'.data[k] = store[k]
                         /\ Present(k)]_vars

\* a pass has ingested one document while the ledger has the entry, and
\* the collection the points, of a document that is no longer upstream
C28_Witness ==
    /\ kind = "gdrive"
    /\ pc = "examine"
    /\ \E k1 \in Keys, k2 \in Keys :
           /\ k1 # k2
           /\ store[k1] # disk.data[k1]
           /\ PointsOfKey(k1) # {}
           /\ ~Present(k2)
           /\ store[k2].in
           /\ store[k2] = disk.data[k2]
           /\ PointsOfKey(k2) = Range(store[k2].ids)
           /\ PointsOfKey(k2) # {}

\* the key a document has in the ledger of its pipeline: the Drive file
\* id, the GitHub file key, the name of the JSON file
LedgerKey(p) ==
    IF p.node.metadata["file id"] # <<>> THEN p.node.metadata["file id"]
    ELSE p.node.metadata["doc_id"]

\* C29: two chunks of documents of the pipelines that differ in source key,
\* namespace, content type or chunk index have different ids: the ids of
\* two documents with different source keys are disjoint, also when a key
\* contains the separator, and the ids of one document differ from index
\* to index; so the ids recorded for one document name no point of
\* another.
C29_IdsDoNotCollide ==
    LET ingested == {p \in produced : LedgerKey(p) # <<>>} IN
    /\ \A p \in ingested, q \in ingested :
           (\/ LedgerKey(p) # LedgerKey(q)
            \/ p.node.personality_ns # q.node.personality_ns
            \/ p.node.content_type # q.node.content_type
            \/ p.node.chunk_index # q.node.chunk_index)
               => p.node_id # q.node_id
    /\ \A p \in ingested :
           LET recorded == {q.node_id : q \in {r \in ingested :
                               LedgerKey(r) = LedgerKey(p)}}
               others == {q.node_id : q \in {r \in ingested :
                             LedgerKey(r) # LedgerKey(p)}}
           IN others \ recorded = others

\* chunks of two documents whose keys differ, one key beginning like the
\* id string of the other, with the same namespace, content type and
\* index, and two chunks of one document
C29_Witness ==
    /\ \E p \in produced, q \in produced :
           /\ LedgerKey(p) = <<"a">>
           /\ LedgerKey(q) = <<"a", "|", "technical">>
           /\ p.node.personality_ns = q.node.personality_ns
           /\ p.node.content_type = q.node.content_type
           /\ p.node.chunk_index = q.node.chunk_index
    /\ \E p \in produced, q \in produced :
           /\ LedgerKey(p) = LedgerKey(q)
           /\ LedgerKey(p) # <<>>
           /\ p.node.chunk_index # q.node.chunk_index

\* C30: a call of _upsert_with_retry with retries > 0 ends, and when it has
\* ended it has attempted the upsert at least once and at most retries
\* times and slept 2^attempt seconds after each failed attempt but the
\* last: it has returned after a successful attempt, or raised
\* ResponseHandlingException after retries failed attempts.
C30_UpsertRetryTerminates ==
    (retrying.retries > 0 /\ retrying.pc \in {"returned", "raised"}) =>
        /\ retrying.attempts \in 1..retrying.retries
        /\ Len(retrying.sleeps) = retrying.attempts - 1
        /\ \A a \in 1..Len(retrying.sleeps) : retrying.sleeps[a] = 2 ^ (a - 1)
        /\ retrying.pc = "raised" =>
               /\ retrying.error = "ResponseHandlingException"
               /\ retrying.attempts = retrying.retries

====
